---- MODULE Spec2Model ----
(***************************************************************************)
(* twiggy's WebAssembly parser: parse_wasm (src/parser/parser.rs) and the  *)
(* two passes of ModuleReader (src/parser/wasm_parse/mod.rs), parse_items  *)
(* and parse_edges, over one input buffer.                                 *)
(*                                                                         *)
(* The buffer is described by the payloads wasmparser's Parser yields for  *)
(* it (each with the bytes it consumes and the entries of its section) and *)
(* by its byte length, which may cut the last payloads short.              *)
(***************************************************************************)
EXTENDS Integers, Sequences, FiniteSets, TLC

VARIABLES
    input,              \* the buffer: [payloads, len, build]
    pc,                 \* position in parse_wasm
    pass,               \* which ModuleReader is running: "items" (module1), "edges" (module2)
    result,             \* [status, msg]: running, ok, err (anyhow::Error), panic
    graph,              \* Option<ir::Items>: what parse_wasm returned
    items,              \* the ir::ItemsBuilder
    offset,             \* ModuleReader.offset
    idx,                \* the payload counter of the walk loops
    sections,           \* Vec<IndexedSection>
    code_section,       \* Option<CodeSection>
    function_section,   \* Option<FunctionSection>
    names,              \* Option<NameSectionReader>
    sizes,              \* HashMap<usize, u32>
    name_tables,        \* Names (function_names, data_names)
    imported_functions, \* usize
    indices,            \* SectionIndices
    cursor              \* position of the `for ... in sections` loops

vars == <<input, pc, pass, result, graph, items, offset, idx, sections,
          code_section, function_section, names, sizes, name_tables,
          imported_functions, indices, cursor>>

(***************************************************************************)
(* Bounds of the model.                                                    *)
(***************************************************************************)
MaxSections == 3
MaxOps == 3
MaxPrefix == 3

(***************************************************************************)
(* Option, maps, sums.                                                     *)
(***************************************************************************)
None == <<>>
Some(x) == <<x>>
IsSome(o) == Len(o) = 1
Unwrap(o) == o[1]

EmptyMap == <<>>
Insert(m, k, v) == [x \in (DOMAIN m) \cup {k} |-> IF x = k THEN v ELSE m[x]]

RECURSIVE SumSizes(_)
SumSizes(s) == IF s = <<>> THEN 0 ELSE Head(s).size + SumSizes(Tail(s))

RECURSIVE Concat(_)
Concat(ss) == IF ss = <<>> THEN <<>> ELSE Head(ss) \o Concat(Tail(ss))

RECURSIVE SeqsUpTo(_, _)
SeqsUpTo(S, n) ==
    IF n = 0 THEN {<<>>}
    ELSE LET shorter == SeqsUpTo(S, n - 1)
         IN  shorter \cup {Append(s, x) : s \in {t \in shorter : Len(t) = n - 1}, x \in S}

(***************************************************************************)
(* Display names: format!(fmt, i) or a string taken verbatim.              *)
(***************************************************************************)
Fmt(fmt, i, s) == [fmt |-> fmt, i |-> i, s |-> s]
Str(s) == Fmt("{}", 0, s)

(***************************************************************************)
(* twiggy_ir: Id, Item and ItemsBuilder.  The builder records the calls    *)
(* made on it, in order; get_data is the interval query.                   *)
(***************************************************************************)
IdSection(section) == <<section>>
IdEntry(section, index) == <<section, index>>

Item(id, name, size, kind) == [id |-> id, name |-> name, size |-> size, kind |-> kind]

NewItemsBuilder(size) ==
    [size |-> size, size_added |-> 0, items |-> <<>>, roots |-> <<>>,
     edges |-> <<>>, data |-> <<>>]

add_item(b, item) ==
    [b EXCEPT !.items = Append(@, item), !.size_added = @ + item.size]

add_root(b, item) ==
    [add_item(b, item) EXCEPT !.roots = Append(@, item.id)]

add_edge(b, from, to) == [b EXCEPT !.edges = Append(@, <<from, to>>)]

link_data(b, off, length, id) ==
    [b EXCEPT !.data = Append(@, [start |-> off, len |-> length, id |-> id])]

finish(b) == [items |-> b.items, roots |-> b.roots, edges |-> b.edges]

(***************************************************************************)
(* Unsigned 64-bit values, as four 16-bit limbs (least significant first). *)
(***************************************************************************)
Limb == 65536

\* `value as u64` of an i32: sign extension
I32AsU64(v) ==
    LET ext == IF v < 0 THEN Limb - 1 ELSE 0
    IN  <<v % Limb, (v \div Limb) % Limb, ext, ext>>

\* a non-negative number below 2^31 as u64
U64(n) == <<n % Limb, (n \div Limb) % Limb, 0, 0>>

\* a + b on u64: the wrapped sum and whether the exact sum needed a 65th bit
U64Add(a, b) ==
    LET s1 == a[1] + b[1]
        s2 == a[2] + b[2] + (s1 \div Limb)
        s3 == a[3] + b[3] + (s2 \div Limb)
        s4 == a[4] + b[4] + (s3 \div Limb)
    IN  [value |-> <<s1 % Limb, s2 % Limb, s3 % Limb, s4 % Limb>>,
         overflow |-> s4 >= Limb]

\* whether the u64 a lies in the half-open interval [start, start + len)
U64Within(a, start, len) ==
    /\ a[3] = 0
    /\ a[4] = 0
    /\ a[2] < Limb \div 2
    /\ start <= a[1] + a[2] * Limb
    /\ a[1] + a[2] * Limb < start + len

get_data(b, addr) ==
    LET hits == {k \in 1..Len(b.data) : U64Within(addr, b.data[k].start, b.data[k].len)}
    IN  IF hits = {} THEN None
        ELSE Some(b.data[CHOOSE k \in hits : \A j \in hits : k <= j].id)

(***************************************************************************)
(* The payloads of a buffer.  A payload has the bytes the walker consumes  *)
(* for it (size), the bytes from its start to the end of its range (span), *)
(* and the entries its section reader yields.  A code section is a         *)
(* CodeSectionStart payload, which consumes the section header and the     *)
(* count only, followed by one CodeSectionEntry payload per body.          *)
(***************************************************************************)
Payload(kind, size, span, entries, name, func) ==
    [kind |-> kind, size |-> size, span |-> span, entries |-> entries,
     name |-> name, func |-> func]

Section(kind, hdr, entries) ==
    Payload(kind, hdr + SumSizes(entries), hdr + SumSizes(entries), entries, "", 0)

Version == Payload("Version", 8, 8, <<>>, "", 0)

CodeSection(hdr, bodies) ==
    <<Payload("CodeSectionStart", hdr, hdr + SumSizes(bodies), bodies, "", 0)>>
    \o [i \in 1..Len(bodies) |->
            Payload("CodeSectionEntry", bodies[i].size, bodies[i].size, <<bodies[i]>>, "", 0)]

CustomSection(name, hdr, entries) ==
    Payload("CustomSection", hdr + SumSizes(entries), hdr + SumSizes(entries), entries, name, 0)

StartSection(size, func) == Payload("StartSection", size, size, <<>>, "", func)

\* instructions: the operator and its immediate (index, constant or offset)
Op(op, imm) == [op |-> op, imm |-> imm]

LoadOps ==
    {"I32Load", "I32Load8S", "I32Load8U", "I32Load16S", "I32Load16U",
     "I64Load", "I64Load8S", "I64Load8U", "I64Load16S", "I64Load16U",
     "I64Load32S", "I64Load32U", "F32Load", "F64Load"}

Body(size, ops) == [size |-> size, ops |-> ops]

\* the byte offset at which payload k starts
RECURSIVE StartOf(_, _)
StartOf(payloads, k) ==
    IF k <= 1 THEN 0 ELSE StartOf(payloads, k - 1) + payloads[k - 1].size

TotalLen(payloads) == StartOf(payloads, Len(payloads) + 1)

Buffer(payloads, len, build) == [payloads |-> payloads, len |-> len, build |-> build]

(***************************************************************************)
(* wasmparser::Parser::parse(&data[offset..], false): the payload at the   *)
(* offset, or NeedMoreData when the buffer ends before the payload does.   *)
(***************************************************************************)
PayloadIndex(off) ==
    CHOOSE k \in 1..Len(input.payloads) : StartOf(input.payloads, k) = off

ParserParse(off) ==
    LET p == input.payloads[PayloadIndex(off)]
    IN  IF off + p.size > input.len
        THEN [chunk |-> "NeedMoreData", consumed |-> 0, payload |-> p]
        ELSE IF p.kind = "NotWasm"
        THEN [chunk |-> "Error", consumed |-> 0, payload |-> p]
        ELSE [chunk |-> "Parsed", consumed |-> p.size, payload |-> p]

\* self.parser.parse(..)?: the four bytes read for the header are not the magic
BadMagic == [status |-> "err", msg |-> "magic header not detected: bad magic number"]

\* SectionLimited::into_iter_with_offsets: the offset of every entry, and
\* the end of the section's range
EntryOffset(entries, i) == SumSizes(SubSeq(entries, 1, i - 1))

iterate_with_size(entries) ==
    [i \in 1..Len(entries) |->
        LET off == EntryOffset(entries, i)
            next_offset == IF i < Len(entries)
                           THEN EntryOffset(entries, i + 1)
                           ELSE SumSizes(entries)
        IN  [item |-> entries[i], size |-> next_offset - off]]

\* the end of a payload's byte range (range.end, reader.range().end)
RangeEnd(payload_start, payload) == payload_start + payload.span

\* ModuleReader::new_code_section: &self.data[range] needs the whole range
\* to lie in the buffer
SliceInBuffer(range_end) == range_end <= input.len

\* a code section measured from the position after its header, as the edges
\* pass reads `start`
new_code_section_after_header(index, start_offset, range_end, payload) ==
    [index |-> index, reader |-> payload.entries,
     byte_size |-> range_end - (start_offset + payload.size)]

new_code_section(index, start_offset, range_end, payload) ==
    [index |-> index, reader |-> payload.entries,
     byte_size |-> range_end - start_offset]

FunctionSection(index, start, range_end, payload) ==
    [index |-> index, reader |-> payload.entries, byte_size |-> range_end - start]

(***************************************************************************)
(* The position counter of a walk: idx += 1 after every payload, in the    *)
(* items pass and in the edges pass.                                       *)
(***************************************************************************)
\* a counter that passes over the code-body entries, which give no section
NextIdxSkippingBodies(i, section) ==
    IF section.kind = "CodeSectionEntry" THEN i ELSE i + 1

NextIdxItems(i, section) == i + 1

NextIdxEdges(i, section) == i + 1

(***************************************************************************)
(* Outcomes.                                                               *)
(***************************************************************************)
Running == [status |-> "running", msg |-> ""]

Halt(status, msg) ==
    /\ pc' = "done"
    /\ result' = [status |-> status, msg |-> msg]
    /\ graph' = None

\* a walker result that is unwrapped instead of returned
NeedMoreDataPanics == [status |-> "panic", msg |-> "wasm binary cannot be fully parsed"]

\* Chunk::NeedMoreData => return Err(anyhow!("wasm binary cannot be fully parsed"))
NeedMoreData == [status |-> "err", msg |-> "wasm binary cannot be fully parsed"]

\* the items pass treating the missing pair as the edges pass does
MissingPairPanics == [status |-> "panic", msg |-> "function or code section is missing"]

\* parse_items: _ => Err(anyhow!("function or code section is missing"))?
MissingPair == [status |-> "err", msg |-> "function or code section is missing"]

walkVars == <<offset, idx, sections, code_section, function_section, names, sizes>>

(***************************************************************************)
(* parse_wasm starts: the builder and module1.                             *)
(***************************************************************************)
InitIn(buffers) ==
    /\ input \in buffers
    /\ pc = "items_walk"
    /\ pass = "items"
    /\ result = Running
    /\ graph = None
    /\ items = NewItemsBuilder(input.len)
    /\ offset = 0
    /\ idx = 0
    /\ sections = <<>>
    /\ code_section = None
    /\ function_section = None
    /\ names = None
    /\ sizes = EmptyMap
    /\ name_tables = [function_names |-> EmptyMap, data_names |-> EmptyMap]
    /\ imported_functions = 0
    /\ indices = [type_ |-> None, code |-> None, functions |-> <<>>,
                  tables |-> <<>>, memories |-> <<>>, globals |-> <<>>]
    /\ cursor = 1

(***************************************************************************)
(* ModuleReader::parse_items, the walk loop: one iteration.                *)
(***************************************************************************)
ItemsRead ==
    /\ pc = "items_walk"
    /\ offset # input.len
    /\ LET start == offset
           chunk == ParserParse(offset)
           section == chunk.payload
           size == (offset + chunk.consumed) - start
       IN  IF chunk.chunk = "NeedMoreData"
           THEN /\ Halt(NeedMoreData.status, NeedMoreData.msg)
                /\ UNCHANGED walkVars
           ELSE IF chunk.chunk = "Error"
           THEN /\ Halt(BadMagic.status, BadMagic.msg)
                /\ UNCHANGED walkVars
           ELSE IF section.kind = "CodeSectionStart"
                   /\ ~SliceInBuffer(RangeEnd(start, section))
           THEN /\ Halt("panic", "range end index out of range for slice")
                /\ UNCHANGED walkVars
           ELSE /\ offset' = offset + chunk.consumed
                /\ code_section' =
                      IF section.kind = "CodeSectionStart"
                      THEN Some(new_code_section(idx, start, RangeEnd(start, section), section))
                      ELSE code_section
                /\ function_section' =
                      IF section.kind = "FunctionSection"
                      THEN Some(FunctionSection(idx, start, RangeEnd(start, section), section))
                      ELSE function_section
                /\ names' =
                      IF section.kind = "CustomSection" /\ section.name = "name"
                      THEN Some(section)
                      ELSE names
                /\ sections' =
                      IF section.kind \in {"CodeSectionStart", "FunctionSection",
                                           "CodeSectionEntry"}
                      THEN sections
                      ELSE Append(sections, [idx |-> idx, payload |-> section])
                /\ sizes' = Insert(sizes, idx, size)
                /\ idx' = NextIdxItems(idx, section)
                /\ UNCHANGED <<pc, result, graph>>
    /\ UNCHANGED <<input, pass, items, name_tables, imported_functions, indices, cursor>>
(***************************************************************************)
(* parse_names_section and count_imported_functions.                       *)
(***************************************************************************)
RECURSIVE InsertNamings(_, _)
InsertNamings(map, namings) ==
    IF namings = <<>> THEN [ok |-> TRUE, map |-> map]
    ELSE IF ~Head(namings).ok THEN [ok |-> FALSE, map |-> map]
    ELSE InsertNamings(Insert(map, Head(namings).index, Head(namings).name),
                       Tail(namings))

RECURSIVE NamesLoop(_, _)
NamesLoop(subsections, acc) ==
    IF subsections = <<>> THEN [ok |-> TRUE, names |-> acc]
    ELSE LET name == Head(subsections)
             rest == Tail(subsections)
         IN  IF name.kind = "Function"
             THEN LET r == InsertNamings(acc.function_names, name.namings)
                  IN  IF r.ok
                      THEN NamesLoop(rest, [acc EXCEPT !.function_names = r.map])
                      ELSE [ok |-> FALSE, names |-> acc]
             ELSE IF name.kind = "Data"
             THEN LET r == InsertNamings(acc.data_names, name.namings)
                  IN  IF r.ok
                      THEN NamesLoop(rest, [acc EXCEPT !.data_names = r.map])
                      ELSE [ok |-> FALSE, names |-> acc]
             ELSE NamesLoop(rest, acc)

NamesDefault == [function_names |-> EmptyMap, data_names |-> EmptyMap]

\* reader.filter_map(Result::ok): the subsections that decode
DecodedSubsections(reader) == SelectSeq(reader, LAMBDA e : e.ok)

parse_names_section(reader) == NamesLoop(DecodedSubsections(reader), NamesDefault)

RECURSIVE CountFuncImports(_)
CountFuncImports(entries) ==
    IF entries = <<>> THEN 0
    ELSE (IF Head(entries).ty = "Func" THEN 1 ELSE 0) + CountFuncImports(Tail(entries))

RECURSIVE count_imported_functions(_)
count_imported_functions(indexed_sections) ==
    IF indexed_sections = <<>> THEN 0
    ELSE (IF Head(indexed_sections).payload.kind = "ImportSection"
          THEN CountFuncImports(Head(indexed_sections).payload.entries)
          ELSE 0)
         + count_imported_functions(Tail(indexed_sections))

ItemsPrepare ==
    /\ pc = "items_walk"
    /\ offset = input.len
    /\ LET parsed == IF IsSome(names)
                     THEN parse_names_section(Unwrap(names).entries)
                     ELSE [ok |-> TRUE, names |-> NamesDefault]
       IN  IF ~parsed.ok
           THEN /\ Halt("err", "invalid naming")
                /\ UNCHANGED <<name_tables, imported_functions>>
           ELSE /\ name_tables' = parsed.names
                /\ imported_functions' = count_imported_functions(sections)
                /\ pc' = "items_funccode"
                /\ UNCHANGED <<result, graph>>
    /\ UNCHANGED <<input, pass, items, indices, cursor>>
    /\ UNCHANGED walkVars

(***************************************************************************)
(* (FunctionSection, CodeSection)::parse_items                             *)
(***************************************************************************)
RECURSIVE AddItems(_, _)
AddItems(b, its) == IF its = <<>> THEN b ELSE AddItems(add_item(b, Head(its)), Tail(its))

RECURSIVE AddRoots(_, _)
AddRoots(b, its) == IF its = <<>> THEN b ELSE AddRoots(add_root(b, Head(its)), Tail(its))

Min(a, b) == IF a <= b THEN a ELSE b

get_code_section_name == Str("code section headers")

\* a lookup that forgets the imported functions: function_names.get(&i)
CodeItemNameNoOffset(i, imported, function_names) ==
    IF i \in DOMAIN function_names
    THEN Str(function_names[i])
    ELSE Fmt("code[{}]", i, "")

\* the name of code item i: the debug name of function i + imported_functions
CodeItemName(i, imported, function_names) ==
    IF (i + imported) \in DOMAIN function_names
    THEN Str(function_names[i + imported])
    ELSE Fmt("code[{}]", i, "")

FuncItems(func_section) ==
    LET funcs == iterate_with_size(func_section.reader)
    IN  [i \in 1..Len(funcs) |->
            Item(IdEntry(func_section.index, i - 1), Fmt("func[{}]", i - 1, ""),
                 funcs[i].size, "Misc")]

CodeItems(func_section, code_sec, imported, function_names) ==
    LET func_items == FuncItems(func_section)
        bodies == iterate_with_size(code_sec.reader)
    IN  [i \in 1..Min(Len(bodies), Len(func_items)) |->
            Item(IdEntry(code_sec.index, i - 1),
                 CodeItemName(i - 1, imported, function_names),
                 bodies[i].size + func_items[i].size, "Code")]

FunctionCode_parse_items(b, func_section, code_sec, imported, function_names) ==
    LET start == b.size_added
        b1 == AddItems(b, CodeItems(func_section, code_sec, imported, function_names))
        added == b1.size_added - start
        size == code_sec.byte_size + func_section.byte_size
    IN  IF added <= size
        THEN [panic |-> FALSE,
              items |-> add_root(b1, Item(IdSection(code_sec.index), get_code_section_name,
                                          size - added, "Misc"))]
        ELSE [panic |-> TRUE, items |-> b1]

\* an items pass that goes on to the other sections when the pair is missing
ItemsFuncCodeLenient ==
    /\ pc = "items_funccode"
    /\ IF IsSome(function_section) /\ IsSome(code_section)
       THEN LET r == FunctionCode_parse_items(items, Unwrap(function_section),
                                              Unwrap(code_section), imported_functions,
                                              name_tables.function_names)
            IN  IF r.panic
                THEN Halt("panic", "assertion failed: added <= size") /\ UNCHANGED <<items, cursor>>
                ELSE /\ items' = r.items
                     /\ cursor' = 1
                     /\ pc' = "items_sections"
                     /\ UNCHANGED <<result, graph>>
       ELSE /\ cursor' = 1
            /\ pc' = "items_sections"
            /\ UNCHANGED <<items, result, graph>>
    /\ UNCHANGED <<input, pass, name_tables, imported_functions, indices>>
    /\ UNCHANGED walkVars

ItemsFuncCode ==
    /\ pc = "items_funccode"
    /\ IF IsSome(function_section) /\ IsSome(code_section)
       THEN LET r == FunctionCode_parse_items(items, Unwrap(function_section),
                                              Unwrap(code_section), imported_functions,
                                              name_tables.function_names)
            IN  IF r.panic
                THEN Halt("panic", "assertion failed: added <= size") /\ UNCHANGED <<items, cursor>>
                ELSE /\ items' = r.items
                     /\ cursor' = 1
                     /\ pc' = "items_sections"
                     /\ UNCHANGED <<result, graph>>
       ELSE Halt(MissingPair.status, MissingPair.msg) /\ UNCHANGED <<items, cursor>>
    /\ UNCHANGED <<input, pass, name_tables, imported_functions, indices>>
    /\ UNCHANGED walkVars
(***************************************************************************)
(* parse_items of the other sections.                                      *)
(***************************************************************************)
get_section_name(section) ==
    CASE section.kind = "CustomSection" -> Fmt("custom section '{}' headers", 0, section.name)
      [] section.kind = "TypeSection" -> Str("type section headers")
      [] section.kind = "ImportSection" -> Str("import section headers")
      [] section.kind = "TableSection" -> Str("table section headers")
      [] section.kind = "MemorySection" -> Str("memory section headers")
      [] section.kind = "GlobalSection" -> Str("global section headers")
      [] section.kind = "ExportSection" -> Str("export section headers")
      [] section.kind = "StartSection" -> Str("start section headers")
      [] section.kind = "ElementSection" -> Str("element section headers")
      [] section.kind = "DataSection" -> Str("data section headers")
      [] section.kind = "DataCountSection" -> Str("data count section headers")
      [] section.kind = "Version" -> Str("wasm magic bytes")
      [] OTHER -> Fmt("{:?}", 0, section.kind)

SubsectionName(kind) == Fmt("\"{} names\" subsection", 0, kind)

\* NameSectionReader::parse_items: a root per subsection that decodes,
\* numbered by the count of those before it
RECURSIVE NameSubsectionItems(_, _, _)
NameSubsectionItems(index, reader, i) ==
    IF reader = <<>> THEN <<>>
    ELSE IF Head(reader).ok
    THEN <<Item(IdEntry(index, i), SubsectionName(Head(reader).kind),
                Head(reader).size, "DebugInfo")>>
         \o NameSubsectionItems(index, Tail(reader), i + 1)
    ELSE NameSubsectionItems(index, Tail(reader), i)

NameSectionReader_parse_items(b, index, reader) ==
    AddRoots(b, NameSubsectionItems(index, reader, 0))

CustomSectionReader_parse_items(b, index, section) ==
    IF section.name = "name"
    THEN NameSectionReader_parse_items(b, index, section.entries)
    ELSE add_item(b, Item(IdEntry(index, 0), Fmt("custom section '{}'", 0, section.name),
                          SumSizes(section.entries), "Misc"))

\* explicit recursive groups and non-function composite types give no item
TypeItems(index, reader) ==
    LET sized == iterate_with_size(reader)
        kept == SelectSeq([i \in 1..Len(sized) |-> i],
                          LAMBDA i : sized[i].item.comp = "Func")
    IN  [k \in 1..Len(kept) |->
            Item(IdEntry(index, kept[k] - 1), Fmt("type[{}]: {}", kept[k] - 1,
                 sized[kept[k]].item.sig), sized[kept[k]].size, "Misc")]

TypeSectionReader_parse_items(b, index, reader) == AddItems(b, TypeItems(index, reader))

EntryItems(index, reader, fmt, kind) ==
    LET sized == iterate_with_size(reader)
    IN  [i \in 1..Len(sized) |->
            Item(IdEntry(index, i - 1), Fmt(fmt, i - 1, sized[i].item.name),
                 sized[i].size, kind)]

ImportSectionReader_parse_items(b, index, reader) ==
    AddItems(b, EntryItems(index, reader, "import {}", "Misc"))

TableSectionReader_parse_items(b, index, reader) ==
    AddRoots(b, EntryItems(index, reader, "table[{}]", "Misc"))

MemorySectionReader_parse_items(b, index, reader) ==
    AddItems(b, EntryItems(index, reader, "memory[{}]", "Misc"))

GlobalSectionReader_parse_items(b, index, reader) ==
    AddItems(b, EntryItems(index, reader, "global[{}]", "Data"))

ExportSectionReader_parse_items(b, index, reader) ==
    AddRoots(b, EntryItems(index, reader, "export \"{}\"", "Misc"))

ElementSectionReader_parse_items(b, index, reader) ==
    AddItems(b, EntryItems(index, reader, "elem[{}]", "Misc"))

\* the constant address of a segment: the first operator of the offset
\* expression, when it is a constant
ConstantOffset(offset_expr) ==
    IF offset_expr = <<>> THEN None
    ELSE IF Head(offset_expr).op \in {"I32Const", "I64Const"}
    THEN Some(Head(offset_expr).imm)
    ELSE None

DataItemName(i, data_names) ==
    IF i \in DOMAIN data_names
    THEN Fmt("data segment \"{}\"", 0, data_names[i])
    ELSE Fmt("data[{}]", i, "")

RECURSIVE DataLoop(_, _, _, _, _)
DataLoop(b, index, sized, i, data_names) ==
    IF i > Len(sized) THEN b
    ELSE LET d == sized[i].item
             id == IdEntry(index, i - 1)
             b1 == add_item(b, Item(id, DataItemName(i - 1, data_names),
                                    sized[i].size, "Data"))
             off == IF d.kind = "Active" THEN ConstantOffset(d.offset_expr) ELSE None
             b2 == IF IsSome(off) THEN link_data(b1, Unwrap(off), d.len, id) ELSE b1
         IN  DataLoop(b2, index, sized, i + 1, data_names)

DataSectionReader_parse_items(b, index, reader, data_names) ==
    DataLoop(b, index, iterate_with_size(reader), 1, data_names)

SectionParseItems(b, index, section, data_names) ==
    CASE section.kind = "CustomSection" -> CustomSectionReader_parse_items(b, index, section)
      [] section.kind = "TypeSection" -> TypeSectionReader_parse_items(b, index, section.entries)
      [] section.kind = "ImportSection" -> ImportSectionReader_parse_items(b, index, section.entries)
      [] section.kind = "TableSection" -> TableSectionReader_parse_items(b, index, section.entries)
      [] section.kind = "MemorySection" -> MemorySectionReader_parse_items(b, index, section.entries)
      [] section.kind = "GlobalSection" -> GlobalSectionReader_parse_items(b, index, section.entries)
      [] section.kind = "ExportSection" -> ExportSectionReader_parse_items(b, index, section.entries)
      [] section.kind = "ElementSection" -> ElementSectionReader_parse_items(b, index, section.entries)
      [] section.kind = "DataSection" ->
            DataSectionReader_parse_items(b, index, section.entries, data_names)
      [] OTHER -> b

\* one iteration of the loop over `sections`: the section's items, then its root
ItemsSection ==
    /\ pc = "items_sections"
    /\ cursor <= Len(sections)
    /\ LET index == sections[cursor].idx
           section == sections[cursor].payload
           start == items.size_added
           name == get_section_name(section)
           b1 == SectionParseItems(items, index, section, name_tables.data_names)
           id == IdSection(index)
           added == b1.size_added - start
       IN  IF index \notin DOMAIN sizes
           THEN Halt("err", "Could not find section size") /\ UNCHANGED <<items, cursor>>
           ELSE IF ~(added <= sizes[index])
           THEN Halt("panic", "assertion failed: added <= *size")
                /\ UNCHANGED <<items, cursor>>
           ELSE /\ items' = add_root(b1, Item(id, name, sizes[index] - added, "Misc"))
                /\ cursor' = cursor + 1
                /\ UNCHANGED <<pc, result, graph>>
    /\ UNCHANGED <<input, pass, name_tables, imported_functions, indices>>
    /\ UNCHANGED walkVars

(***************************************************************************)
(* parse_wasm: the items pass returned Ok; module2 is created.             *)
(***************************************************************************)
NewModule2 ==
    /\ pc = "items_sections"
    /\ cursor > Len(sections)
    /\ pass' = "edges"
    /\ pc' = "edges_walk"
    /\ offset' = 0
    /\ idx' = 0
    /\ sections' = <<>>
    /\ code_section' = None
    /\ function_section' = None
    /\ cursor' = 1
    /\ UNCHANGED <<input, result, graph, items, names, sizes, name_tables,
                   imported_functions, indices>>
(***************************************************************************)
(* ModuleReader::parse_edges, the walk loop: one iteration.  `start` is    *)
(* read after the payload was consumed.                                    *)
(***************************************************************************)
EdgesRead ==
    /\ pc = "edges_walk"
    /\ offset # input.len
    /\ LET chunk == ParserParse(offset)
           section == chunk.payload
           start == offset + chunk.consumed
           range_end == RangeEnd(offset, section)
       IN  IF chunk.chunk = "NeedMoreData"
           THEN /\ Halt(NeedMoreData.status, NeedMoreData.msg)
                /\ UNCHANGED <<offset, idx, sections, code_section, function_section>>
           ELSE IF chunk.chunk = "Error"
           THEN /\ Halt(BadMagic.status, BadMagic.msg)
                /\ UNCHANGED <<offset, idx, sections, code_section, function_section>>
           ELSE IF section.kind = "CodeSectionStart" /\ ~SliceInBuffer(range_end)
           THEN /\ Halt("panic", "range end index out of range for slice")
                /\ UNCHANGED <<offset, idx, sections, code_section, function_section>>
           ELSE /\ offset' = start
                /\ code_section' =
                      IF section.kind = "CodeSectionStart"
                      THEN Some(new_code_section(idx, start, range_end, section))
                      ELSE code_section
                /\ function_section' =
                      IF section.kind = "FunctionSection"
                      THEN Some(FunctionSection(idx, start, range_end, section))
                      ELSE function_section
                /\ sections' =
                      IF section.kind \in {"CodeSectionStart", "FunctionSection"}
                      THEN sections
                      ELSE Append(sections, [idx |-> idx, payload |-> section])
                /\ idx' = NextIdxEdges(idx, section)
                /\ UNCHANGED <<pc, result, graph>>
    /\ UNCHANGED <<input, pass, items, names, sizes, name_tables, imported_functions,
                   indices, cursor>>

(***************************************************************************)
(* The index spaces (SectionIndices).                                      *)
(***************************************************************************)
SectionIndicesDefault ==
    [type_ |-> None, code |-> None, functions |-> <<>>, tables |-> <<>>,
     memories |-> <<>>, globals |-> <<>>]

EntryIds(index, count) == [i \in 1..count |-> IdEntry(index, i - 1)]

RECURSIVE IndexImports(_, _, _, _)
IndexImports(ind, index, reader, i) ==
    IF i > Len(reader) THEN ind
    ELSE LET id == IdEntry(index, i - 1)
             ty == reader[i].ty
             next == CASE ty = "Func" -> [ind EXCEPT !.functions = Append(@, id)]
                       [] ty = "Table" -> [ind EXCEPT !.tables = Append(@, id)]
                       [] ty = "Memory" -> [ind EXCEPT !.memories = Append(@, id)]
                       [] ty = "Global" -> [ind EXCEPT !.globals = Append(@, id)]
                       [] OTHER -> ind
         IN  IndexImports(next, index, reader, i + 1)

IndexSection(ind, index, section) ==
    CASE section.kind = "TypeSection" -> [ind EXCEPT !.type_ = Some(index)]
      [] section.kind = "ImportSection" -> IndexImports(ind, index, section.entries, 1)
      [] section.kind = "GlobalSection" ->
            [ind EXCEPT !.globals = @ \o EntryIds(index, Len(section.entries))]
      [] section.kind = "MemorySection" ->
            [ind EXCEPT !.memories = @ \o EntryIds(index, Len(section.entries))]
      [] section.kind = "TableSection" ->
            [ind EXCEPT !.tables = @ \o EntryIds(index, Len(section.entries))]
      [] OTHER -> ind

RECURSIVE IndexSections(_, _)
IndexSections(ind, indexed_sections) ==
    IF indexed_sections = <<>> THEN ind
    ELSE IndexSections(IndexSection(ind, Head(indexed_sections).idx,
                                    Head(indexed_sections).payload),
                       Tail(indexed_sections))

\* the declared functions come last in the function space
IndexFunctions(ind, func_section, code_sec) ==
    [ind EXCEPT !.code = Some(code_sec.index),
                !.functions = @ \o EntryIds(code_sec.index, Len(func_section.reader))]

BuildIndices(indexed_sections, func_section, code_sec) ==
    LET ind == IndexSections(SectionIndicesDefault, indexed_sections)
    IN  IF IsSome(func_section) /\ IsSome(code_sec)
        THEN IndexFunctions(ind, Unwrap(func_section), Unwrap(code_sec))
        ELSE ind

EdgesIndices ==
    /\ pc = "edges_walk"
    /\ offset = input.len
    /\ indices' = BuildIndices(sections, function_section, code_section)
    /\ pc' = "edges_funccode"
    /\ UNCHANGED <<input, pass, result, graph, items, name_tables, imported_functions, cursor>>
    /\ UNCHANGED walkVars
(***************************************************************************)
(* (FunctionSection, CodeSection)::parse_edges                             *)
(***************************************************************************)
Outcome(panic, value) == [panic |-> panic, value |-> value]

\* an edge from every declared function to its type
TypeEdges(func_section, ind) ==
    LET funcs == iterate_with_size(func_section.reader)
    IN  IF IsSome(ind.type_) /\ IsSome(ind.code)
        THEN [i \in 1..Len(funcs) |->
                <<IdEntry(Unwrap(ind.code), i - 1),
                  IdEntry(Unwrap(ind.type_), funcs[i].item.type_ref)>>]
        ELSE <<>>

\* Operator::Call: indexing indices.functions panics out of bounds
CallEdge(op, body_id, ind) ==
    IF op.imm < Len(ind.functions)
    THEN Outcome(FALSE, <<(<<body_id, ind.functions[op.imm + 1]>>)>>)
    ELSE Outcome(TRUE, <<>>)

\* an indirect call treated as a direct call of its immediate
CallIndirectAsCall(op, body_id, ind) ==
    IF op.imm < Len(ind.functions)
    THEN Outcome(FALSE, <<(<<body_id, ind.functions[op.imm + 1]>>)>>)
    ELSE Outcome(TRUE, <<>>)

\* Operator::CallIndirect => continue
CallIndirectEdge(op, body_id, ind) == Outcome(FALSE, <<>>)

\* Operator::GlobalGet | Operator::GlobalSet
GlobalEdge(op, body_id, ind) ==
    IF op.imm < Len(ind.globals)
    THEN Outcome(FALSE, <<(<<body_id, ind.globals[op.imm + 1]>>)>>)
    ELSE Outcome(TRUE, <<>>)

\* value as u64 + memarg.offset: an overflow panics in a build with overflow
\* checks and wraps in one without
LoadAddress(value, memarg_offset, build) ==
    LET sum == U64Add(I32AsU64(value), U64(memarg_offset))
    IN  Outcome(sum.overflow /\ build = "debug", sum.value)

\* whether the lookback holds the constant a load can use
IsAddressConstant(prev) == IsSome(prev) /\ Unwrap(prev).op = "I32Const"

\* the loads
LoadEdge(op, prev, body_id, b, build) ==
    IF IsAddressConstant(prev)
    THEN LET addr == LoadAddress(Unwrap(prev).imm, op.imm, build)
             data_id == get_data(b, addr.value)
         IN  IF addr.panic THEN Outcome(TRUE, <<>>)
             ELSE IF IsSome(data_id)
             THEN Outcome(FALSE, <<(<<body_id, Unwrap(data_id)>>)>>)
             ELSE Outcome(FALSE, <<>>)
    ELSE Outcome(FALSE, <<>>)

\* what the lookback holds after an instruction: only an instruction of the
\* `other` arm is kept
NextCache(op) ==
    IF op.op \in {"Call", "CallIndirect", "GlobalGet", "GlobalSet"} \cup LoadOps
    THEN None
    ELSE Some(op)

OperatorEdges(op, prev, body_id, ind, b, build) ==
    CASE op.op = "Call" -> CallEdge(op, body_id, ind)
      [] op.op = "CallIndirect" -> CallIndirectEdge(op, body_id, ind)
      [] op.op \in {"GlobalGet", "GlobalSet"} -> GlobalEdge(op, body_id, ind)
      [] op.op \in LoadOps -> LoadEdge(op, prev, body_id, b, build)
      [] OTHER -> Outcome(FALSE, <<>>)

\* a scan whose lookback is not emptied before an instruction is examined
RECURSIVE ScanOperatorsKeeping(_, _, _, _, _, _)
ScanOperatorsKeeping(ops, cache, body_id, ind, b, build) ==
    IF ops = <<>> THEN Outcome(FALSE, <<>>)
    ELSE LET prev == cache
             here == OperatorEdges(Head(ops), prev, body_id, ind, b, build)
             kept == IF IsSome(NextCache(Head(ops))) THEN NextCache(Head(ops)) ELSE cache
             rest == ScanOperatorsKeeping(Tail(ops), kept, body_id, ind, b, build)
         IN  IF here.panic THEN Outcome(TRUE, <<>>)
             ELSE IF rest.panic THEN Outcome(TRUE, <<>>)
             ELSE Outcome(FALSE, here.value \o rest.value)

RECURSIVE ScanOperators(_, _, _, _, _, _)
ScanOperators(ops, cache, body_id, ind, b, build) ==
    IF ops = <<>> THEN Outcome(FALSE, <<>>)
    ELSE LET prev == cache
             here == OperatorEdges(Head(ops), prev, body_id, ind, b, build)
             rest == ScanOperators(Tail(ops), NextCache(Head(ops)), body_id, ind, b, build)
         IN  IF here.panic THEN Outcome(TRUE, <<>>)
             ELSE IF rest.panic THEN Outcome(TRUE, <<>>)
             ELSE Outcome(FALSE, here.value \o rest.value)

RECURSIVE ScanBodies(_, _, _, _, _, _)
ScanBodies(bodies, b_i, code_index, ind, b, build) ==
    IF b_i > Len(bodies) THEN Outcome(FALSE, <<>>)
    ELSE LET here == ScanOperators(bodies[b_i].item.ops, None,
                                   IdEntry(code_index, b_i - 1), ind, b, build)
             rest == ScanBodies(bodies, b_i + 1, code_index, ind, b, build)
         IN  IF here.panic THEN Outcome(TRUE, <<>>)
             ELSE IF rest.panic THEN Outcome(TRUE, <<>>)
             ELSE Outcome(FALSE, here.value \o rest.value)

RECURSIVE AddEdges(_, _)
AddEdges(b, edges) ==
    IF edges = <<>> THEN b
    ELSE AddEdges(add_edge(b, Head(edges)[1], Head(edges)[2]), Tail(edges))

FunctionCode_parse_edges(b, func_section, code_sec, ind, build) ==
    LET scan == ScanBodies(iterate_with_size(code_sec.reader), 1, code_sec.index,
                           ind, b, build)
    IN  IF scan.panic THEN Outcome(TRUE, b)
        ELSE Outcome(FALSE, AddEdges(b, TypeEdges(func_section, ind) \o scan.value))

EdgesFuncCode ==
    /\ pc = "edges_funccode"
    /\ IF IsSome(function_section) /\ IsSome(code_section)
       THEN LET r == FunctionCode_parse_edges(items, Unwrap(function_section),
                                              Unwrap(code_section), indices, input.build)
            IN  IF r.panic
                THEN Halt("panic", "index out of bounds or overflow") /\ UNCHANGED <<items, cursor>>
                ELSE /\ items' = r.value
                     /\ cursor' = 1
                     /\ pc' = "edges_sections"
                     /\ UNCHANGED <<result, graph>>
       ELSE Halt("panic", "function or code section is missing") /\ UNCHANGED <<items, cursor>>
    /\ UNCHANGED <<input, pass, name_tables, imported_functions, indices>>
    /\ UNCHANGED walkVars

(***************************************************************************)
(* parse_edges of the other sections.                                      *)
(***************************************************************************)
\* a selection with the table and memory arms exchanged and a tag resolved
\* in the function space
ExportSpaceExchanged(kind, ind) ==
    CASE kind = "Func" -> Some(ind.functions)
      [] kind = "Table" -> Some(ind.memories)
      [] kind = "Memory" -> Some(ind.tables)
      [] kind = "Global" -> Some(ind.globals)
      [] OTHER -> Some(ind.functions)

\* the index space an export kind selects; a tag selects none
ExportSpace(kind, ind) ==
    CASE kind = "Func" -> Some(ind.functions)
      [] kind = "Table" -> Some(ind.tables)
      [] kind = "Memory" -> Some(ind.memories)
      [] kind = "Global" -> Some(ind.globals)
      [] OTHER -> None

RECURSIVE ExportSectionReader_parse_edges(_, _, _, _, _)
ExportSectionReader_parse_edges(b, reader, i, ind, index) ==
    IF i > Len(reader) THEN Outcome(FALSE, b)
    ELSE LET exp == reader[i]
             exp_id == IdEntry(index, i - 1)
             space == ExportSpace(exp.kind, ind)
         IN  IF ~IsSome(space)
             THEN ExportSectionReader_parse_edges(b, reader, i + 1, ind, index)
             ELSE IF exp.index < Len(Unwrap(space))
             THEN ExportSectionReader_parse_edges(
                      add_edge(b, exp_id, Unwrap(space)[exp.index + 1]),
                      reader, i + 1, ind, index)
             ELSE Outcome(TRUE, b)

StartSection_parse_edges(b, function_index, ind, index) ==
    IF function_index < Len(ind.functions)
    THEN Outcome(FALSE, add_edge(b, IdSection(index), ind.functions[function_index + 1]))
    ELSE Outcome(TRUE, b)

RECURSIVE ElementFunctionEdges(_, _, _, _)
ElementFunctionEdges(b, elem_id, funcs, ind) ==
    IF funcs = <<>> THEN Outcome(FALSE, b)
    ELSE IF Head(funcs) < Len(ind.functions)
    THEN ElementFunctionEdges(add_edge(b, elem_id, ind.functions[Head(funcs) + 1]),
                              elem_id, Tail(funcs), ind)
    ELSE Outcome(TRUE, b)

\* table_index.unwrap_or(0)
UnwrapOr(o, default) == IF IsSome(o) THEN Unwrap(o) ELSE default

\* a table edge for every segment, whatever its kind
ElementTableEdgeAnyKind(b, elem, elem_id, ind) ==
    IF UnwrapOr(elem.table_index, 0) < Len(ind.tables)
    THEN Outcome(FALSE, add_edge(b, ind.tables[UnwrapOr(elem.table_index, 0) + 1], elem_id))
    ELSE Outcome(TRUE, b)

ElementTableEdge(b, elem, elem_id, ind) ==
    IF elem.kind = "Active"
    THEN IF UnwrapOr(elem.table_index, 0) < Len(ind.tables)
         THEN Outcome(FALSE, add_edge(b, ind.tables[UnwrapOr(elem.table_index, 0) + 1], elem_id))
         ELSE Outcome(TRUE, b)
    ELSE Outcome(FALSE, b)

RECURSIVE ElementSectionReader_parse_edges(_, _, _, _, _)
ElementSectionReader_parse_edges(b, reader, i, ind, index) ==
    IF i > Len(reader) THEN Outcome(FALSE, b)
    ELSE LET elem == reader[i]
             elem_id == IdEntry(index, i - 1)
             t == ElementTableEdge(b, elem, elem_id, ind)
             f == IF elem.items = "Functions"
                  THEN ElementFunctionEdges(t.value, elem_id, elem.funcs, ind)
                  ELSE t
         IN  IF t.panic \/ f.panic THEN Outcome(TRUE, b)
             ELSE ElementSectionReader_parse_edges(f.value, reader, i + 1, ind, index)

SectionParseEdges(b, index, section, ind) ==
    CASE section.kind = "ExportSection" ->
            ExportSectionReader_parse_edges(b, section.entries, 1, ind, index)
      [] section.kind = "StartSection" ->
            StartSection_parse_edges(b, section.func, ind, index)
      [] section.kind = "ElementSection" ->
            ElementSectionReader_parse_edges(b, section.entries, 1, ind, index)
      [] OTHER -> Outcome(FALSE, b)

EdgesSection ==
    /\ pc = "edges_sections"
    /\ cursor <= Len(sections)
    /\ LET r == SectionParseEdges(items, sections[cursor].idx, sections[cursor].payload,
                                  indices)
       IN  IF r.panic
           THEN Halt("panic", "index out of bounds") /\ UNCHANGED <<items, cursor>>
           ELSE /\ items' = r.value
                /\ cursor' = cursor + 1
                /\ UNCHANGED <<pc, result, graph>>
    /\ UNCHANGED <<input, pass, name_tables, imported_functions, indices>>
    /\ UNCHANGED walkVars

(***************************************************************************)
(* parse_wasm: both passes returned Ok; Ok(items.finish()).                *)
(***************************************************************************)
Finish ==
    /\ pc = "edges_sections"
    /\ cursor > Len(sections)
    /\ graph' = Some(finish(items))
    /\ result' = [status |-> "ok", msg |-> ""]
    /\ pc' = "done"
    /\ UNCHANGED <<input, pass, items, name_tables, imported_functions, indices, cursor>>
    /\ UNCHANGED walkVars

Next ==
    \/ ItemsRead
    \/ ItemsPrepare
    \/ ItemsFuncCode
    \/ ItemsSection
    \/ NewModule2
    \/ EdgesRead
    \/ EdgesIndices
    \/ EdgesFuncCode
    \/ EdgesSection
    \/ Finish
(***************************************************************************)
(* Inputs.  Entries of the sections, then the sections the buffers of each *)
(* specification are built from.                                           *)
(***************************************************************************)
TypeEntry(size, comp, sig) == [size |-> size, comp |-> comp, sig |-> sig]
\* an explicit recursive group: one entry of the type section holding the
\* composite types `types`
RecGroup(size, types) == [size |-> size, comp |-> "Rec", sig |-> "", types |-> types]
FuncEntry(size, type_ref) == [size |-> size, type_ref |-> type_ref]
ImportEntry(size, name, ty) == [size |-> size, name |-> name, ty |-> ty]
PlainEntry(size) == [size |-> size, name |-> ""]
ExportEntry(size, name, kind, index) ==
    [size |-> size, name |-> name, kind |-> kind, index |-> index]
ElemEntry(size, kind, table_index, elem_items, funcs) ==
    [size |-> size, name |-> "", kind |-> kind, table_index |-> table_index,
     items |-> elem_items, funcs |-> funcs]
DataEntry(size, kind, offset_expr, len) ==
    [size |-> size, kind |-> kind, offset_expr |-> offset_expr, len |-> len]
Subsection(size, ok, kind, namings) ==
    [size |-> size, ok |-> ok, kind |-> kind, namings |-> namings]
Naming(ok, index, name) == [ok |-> ok, index |-> index, name |-> name]

Nop == Op("Nop", 0)

TypeSec ==
    <<Section("TypeSection", 3,
              <<TypeEntry(4, "Func", "(i32) -> nil"), TypeEntry(3, "Array", ""),
                TypeEntry(5, "Func", "() -> i32")>>)>>
ImportSec ==
    <<Section("ImportSection", 3,
              <<ImportEntry(9, "env::log", "Func"), ImportEntry(8, "env::tab", "Table"),
                ImportEntry(8, "env::mem", "Memory"), ImportEntry(7, "env::g", "Global"),
                ImportEntry(7, "env::t", "Tag"), ImportEntry(9, "env::now", "Func")>>)>>
FuncSec1 == <<Section("FunctionSection", 3, <<FuncEntry(1, 0)>>)>>
FuncSec2 == <<Section("FunctionSection", 3, <<FuncEntry(1, 0), FuncEntry(1, 2)>>)>>
TableSec == <<Section("TableSection", 3, <<PlainEntry(3), PlainEntry(4)>>)>>
MemorySec == <<Section("MemorySection", 3, <<PlainEntry(3)>>)>>
GlobalSec == <<Section("GlobalSection", 3, <<PlainEntry(6), PlainEntry(5)>>)>>
ExportSec ==
    <<Section("ExportSection", 3,
              <<ExportEntry(7, "run", "Func", 0), ExportEntry(6, "t", "Tag", 0)>>)>>
StartSec == <<StartSection(3, 0)>>
ElementSec ==
    <<Section("ElementSection", 3,
              <<ElemEntry(6, "Passive", None, "Functions", <<0>>),
                ElemEntry(5, "Declared", None, "Expressions", <<>>)>>)>>
CodeSec1 == CodeSection(3, <<Body(4, <<Nop>>)>>)
CodeSec2 == CodeSection(3, <<Body(4, <<Nop>>), Body(6, <<Op("CallIndirect", 0), Nop>>)>>)
DataSec ==
    <<Section("DataSection", 3,
              <<DataEntry(9, "Active", <<Op("I32Const", 16)>>, 4),
                DataEntry(5, "Passive", <<>>, 3)>>)>>
DataCountSec == <<Payload("DataCountSection", 3, 3, <<>>, "", 0)>>
NameSec ==
    <<CustomSection("name", 6,
                    <<Subsection(8, TRUE, "Function", <<Naming(TRUE, 0, "main")>>),
                      Subsection(4, FALSE, "Unknown", <<>>),
                      Subsection(5, TRUE, "Local", <<>>)>>)>>
ProducersSec == <<CustomSection("producers", 11, <<PlainEntry(20)>>)>>

Complete(secs, build) ==
    LET payloads == <<Version>> \o Concat(secs)
    IN  Buffer(payloads, TotalLen(payloads), build)

\* every way the buffer of these payloads can end: whole, at the start of a
\* payload, or one byte into it
Cuts(payloads) ==
    {TotalLen(payloads)}
    \cup {StartOf(payloads, k) + d : k \in 1..Len(payloads), d \in {0, 1}}

(***************************************************************************)
(* Spec: any sequence of up to MaxSections sections, the buffer whole.     *)
(***************************************************************************)
StructPool ==
    {TypeSec, ImportSec, FuncSec1, FuncSec2, TableSec, MemorySec, GlobalSec, ExportSec,
     StartSec, ElementSec, CodeSec1, CodeSec2, DataSec, DataCountSec, NameSec,
     ProducersSec}

StructBuffers == {Complete(secs, "release") : secs \in SeqsUpTo(StructPool, MaxSections)}

Init == InitIn(StructBuffers)

Spec == Init /\ [][Next]_vars
(***************************************************************************)
(* SpecTrunc: sequences of sections with the buffer cut at every point.    *)
(***************************************************************************)
TruncPool == {TypeSec, FuncSec1, CodeSec2, NameSec}

TruncBuffers ==
    UNION {LET payloads == <<Version>> \o Concat(secs)
           IN  {Buffer(payloads, len, "release") : len \in Cuts(payloads)}
           : secs \in SeqsUpTo(TruncPool, MaxSections)}

InitTrunc == InitIn(TruncBuffers)

SpecTrunc == InitTrunc /\ [][Next]_vars

(***************************************************************************)
(* SpecIndex: imports, declarations and references into the index spaces,  *)
(* in any order, before a function and a code section.                     *)
(***************************************************************************)
ExportSecA ==
    <<Section("ExportSection", 3,
              <<ExportEntry(7, "log", "Func", 0), ExportEntry(7, "run", "Func", 2),
                ExportEntry(6, "t", "Tag", 0), ExportEntry(6, "g", "Global", 1)>>)>>
ExportSecB ==
    <<Section("ExportSection", 3,
              <<ExportEntry(8, "tab", "Table", 1), ExportEntry(8, "mem", "Memory", 0)>>)>>
StartSecOut == <<StartSection(3, 4)>>
ElementSecA ==
    <<Section("ElementSection", 3,
              <<ElemEntry(7, "Active", None, "Functions", <<0, 1>>),
                ElemEntry(6, "Declared", None, "Functions", <<1>>),
                ElemEntry(6, "Active", Some(1), "Expressions", <<>>),
                ElemEntry(5, "Passive", None, "Functions", <<0>>)>>)>>

IndexPool ==
    {TypeSec, ImportSec, TableSec, MemorySec, GlobalSec, ExportSecA, ExportSecB,
     StartSec, StartSecOut, ElementSecA}

PlainTail == <<FuncSec2, CodeSec2>>
RefsTail ==
    <<FuncSec2,
      CodeSection(3, <<Body(5, <<Op("Call", 3), Nop>>),
                       Body(6, <<Op("GlobalSet", 1), Op("Call", 0)>>)>>)>>

IndexBuffers ==
    {Complete(secs \o tail, "release") :
        secs \in SeqsUpTo(IndexPool, MaxPrefix), tail \in {PlainTail, RefsTail}}

InitIndex == InitIn(IndexBuffers)

SpecIndex == InitIndex /\ [][Next]_vars

(***************************************************************************)
(* SpecNames: name sections, sound and corrupt, with zero to three         *)
(* imported functions.                                                     *)
(***************************************************************************)
ImportSecOne == <<Section("ImportSection", 3, <<ImportEntry(9, "env::one", "Func")>>)>>
NameSecA ==
    <<CustomSection("name", 6,
                    <<Subsection(30, TRUE, "Function",
                                 <<Naming(TRUE, 0, "f0"), Naming(TRUE, 1, "f1"),
                                   Naming(TRUE, 2, "f2"), Naming(TRUE, 3, "f3")>>)>>)>>
NameSecB ==
    <<CustomSection("name", 6,
                    <<Subsection(4, TRUE, "Unknown", <<>>),
                      Subsection(9, TRUE, "Function", <<Naming(TRUE, 1, "only1")>>),
                      Subsection(8, TRUE, "Data", <<Naming(TRUE, 0, "d0")>>)>>)>>
NameSecBadSubsection ==
    <<CustomSection("name", 6,
                    <<Subsection(7, FALSE, "Function", <<Naming(TRUE, 0, "lost")>>),
                      Subsection(9, TRUE, "Function", <<Naming(TRUE, 2, "kept")>>)>>)>>
NameSecBadNaming ==
    <<CustomSection("name", 6,
                    <<Subsection(20, TRUE, "Function",
                                 <<Naming(TRUE, 0, "p"), Naming(FALSE, 1, ""),
                                   Naming(TRUE, 2, "q")>>)>>)>>
NameSecBadDataNaming ==
    <<CustomSection("name", 6,
                    <<Subsection(9, TRUE, "Data", <<Naming(FALSE, 0, "")>>)>>)>>

NamesPool ==
    {ImportSec, ImportSecOne, NameSecA, NameSecB, NameSecBadSubsection, NameSecBadNaming,
     NameSecBadDataNaming, DataSec}

NamesBuffers ==
    {Complete(secs \o PlainTail, "release") : secs \in SeqsUpTo(NamesPool, MaxPrefix)}

InitNames == InitIn(NamesBuffers)

SpecNames == InitNames /\ [][Next]_vars

(***************************************************************************)
(* SpecCode: one body of up to MaxOps instructions over data segments,     *)
(* built with and without overflow checks.                                 *)
(***************************************************************************)
OpPool ==
    {Op("I32Const", 16), Op("I32Const", 14), Op("I32Const", -1), Op("I64Const", 16),
     Op("I32Load", 0), Op("F64Load", 4), Op("I64Load8U", 17), Op("CallIndirect", 0),
     Op("Call", 0), Op("GlobalGet", 1), Nop}

DataSecA ==
    <<Section("DataSection", 3,
              <<DataEntry(9, "Active", <<Op("I32Const", 16)>>, 4),
                DataEntry(5, "Passive", <<>>, 3),
                DataEntry(8, "Active", <<Op("GlobalGet", 0)>>, 4),
                DataEntry(9, "Active", <<Op("I64Const", 40)>>, 2),
                DataEntry(12, "Active",
                          <<Op("I32Const", 64), Op("I32Const", 4), Op("I32Add", 0)>>, 2)>>)>>

CodeBuffers ==
    {Complete(<<TypeSec, GlobalSec, DataSecA, FuncSec1,
                CodeSection(3, <<Body(2 + Len(ops), ops)>>)>>, build) :
        ops \in SeqsUpTo(OpPool, MaxOps), build \in {"debug", "release"}}

InitCode == InitIn(CodeBuffers)

SpecCode == InitCode /\ [][Next]_vars

(***************************************************************************)
(* SpecTypes: type sections with and without an explicit recursive group,  *)
(* function sections referring to them, code sections of one and two       *)
(* bodies.                                                                 *)
(***************************************************************************)
TypeSecRec ==
    <<Section("TypeSection", 3,
              <<RecGroup(7, <<"Struct", "Struct">>), TypeEntry(4, "Func", "(i32) -> nil")>>)>>
FuncSecRec == <<Section("FunctionSection", 3, <<FuncEntry(1, 2)>>)>>

TypesPool == {TypeSec, TypeSecRec, FuncSec1, FuncSec2, FuncSecRec, CodeSec1, CodeSec2}

TypesBuffers == {Complete(secs, "release") : secs \in SeqsUpTo(TypesPool, MaxSections)}

InitTypes == InitIn(TypesBuffers)

SpecTypes == InitTypes /\ [][Next]_vars

(***************************************************************************)
(* SpecPair: the empty buffer, the header alone, and sequences of sections *)
(* with and without the function and code sections.                        *)
(***************************************************************************)
PairPool ==
    {TypeSec, ImportSec, MemorySec, GlobalSec, DataSec, NameSec, ProducersSec,
     FuncSec1, CodeSec1}

PairBuffers ==
    {Buffer(<<>>, 0, "release")}
    \cup {Complete(secs, "release") : secs \in SeqsUpTo(PairPool, MaxSections)}

InitPair == InitIn(PairBuffers)

SpecPair == InitPair /\ [][Next]_vars

(***************************************************************************)
(* The entry points of the parser: parse, read_and_parse, parse_auto,      *)
(* sniff_wasm and parse_fallback.  A call names the entry point, the mode  *)
(* and the file extension of read_and_parse, whether the file can be read, *)
(* and whether the build has the "dwarf" feature.  The decoder of the      *)
(* other format (object_parse::parse) is not followed: a buffer handed to  *)
(* it ends the run with the status "other".                                *)
(***************************************************************************)
WASM_MAGIC_NUMBER == <<0, 97, 115, 109>>

ParseWasm == "parse_wasm"
ParseOther == "object_parse::parse"

\* data.get(0..4)
FirstFour(buffer) ==
    IF buffer.len < 4 THEN None
    ELSE IF buffer.payloads[1].kind = "NotWasm" THEN Some(buffer.payloads[1].entries)
    ELSE Some(WASM_MAGIC_NUMBER)

sniff_wasm(extension, buffer) ==
    IF extension = Some("wasm") THEN TRUE
    ELSE FirstFour(buffer) = Some(WASM_MAGIC_NUMBER)

parse_fallback == ParseWasm

parse_other == ParseOther

parse_auto(extension, buffer, dwarf) ==
    IF sniff_wasm(extension, buffer) THEN ParseWasm
    ELSE IF dwarf THEN parse_other
    ELSE parse_fallback

parse == parse_fallback

read_and_parse(mode, extension, buffer, dwarf) ==
    CASE mode = "Wasm" -> ParseWasm
      [] mode = "Dwarf" -> parse_other
      [] mode = "Auto" -> parse_auto(extension, buffer, dwarf)

Dispatch ==
    /\ pc = "entry"
    /\ LET decoder == IF input.entry = "parse" THEN parse
                      ELSE read_and_parse(input.mode, input.extension, input, input.dwarf)
       IN  IF input.entry = "read_and_parse" /\ ~input.file_ok
           THEN Halt("err", "io error")
           ELSE IF decoder = ParseWasm
           THEN pc' = "items_walk" /\ UNCHANGED <<result, graph>>
           ELSE Halt("other", ParseOther)
    /\ UNCHANGED <<input, pass, items, name_tables, imported_functions, indices, cursor>>
    /\ UNCHANGED walkVars

(***************************************************************************)
(* SpecEntry: every entry point, mode, extension and build over buffers    *)
(* that are modules, cut modules, empty, or of another format.             *)
(***************************************************************************)
NotWasm(bytes, len) == Buffer(<<Payload("NotWasm", 4, 4, bytes, "", 0)>>, len, "release")

EntryData ==
    {Complete(<<TypeSec, FuncSec1, CodeSec1>>, "release"),
     Complete(<<ImportSec, FuncSec1, CodeSec1, ExportSec>>, "release"),
     Complete(<<MemorySec>>, "release"),
     Buffer(<<Version>>, 3, "release"),
     Buffer(<<>>, 0, "release"),
     NotWasm(<<127, 69, 76, 70>>, 16),
     NotWasm(<<0, 97, 115, 0>>, 8),
     NotWasm(<<127, 69, 76, 70>>, 2)}

Extensions == {None, Some("wasm"), Some("o"), Some("WASM")}

Modes(dwarf) == IF dwarf THEN {"Wasm", "Dwarf", "Auto"} ELSE {"Wasm", "Auto"}

Calls ==
    {[entry |-> "parse", mode |-> "Auto", extension |-> None, dwarf |-> dwarf,
      file_ok |-> TRUE] : dwarf \in BOOLEAN}
    \cup UNION {{[entry |-> "read_and_parse", mode |-> mode, extension |-> extension,
                  dwarf |-> dwarf, file_ok |-> file_ok] :
                    mode \in Modes(dwarf), extension \in Extensions, file_ok \in BOOLEAN}
                : dwarf \in BOOLEAN}

EntryBuffers ==
    {[payloads |-> data.payloads, len |-> data.len, build |-> data.build,
      entry |-> call.entry, mode |-> call.mode, extension |-> call.extension,
      dwarf |-> call.dwarf, file_ok |-> call.file_ok] :
        data \in EntryData, call \in Calls}

InitEntry ==
    /\ input \in EntryBuffers
    /\ pc = "entry"
    /\ pass = "items"
    /\ result = Running
    /\ graph = None
    /\ items = NewItemsBuilder(input.len)
    /\ offset = 0
    /\ idx = 0
    /\ sections = <<>>
    /\ code_section = None
    /\ function_section = None
    /\ names = None
    /\ sizes = EmptyMap
    /\ name_tables = NamesDefault
    /\ imported_functions = 0
    /\ indices = SectionIndicesDefault
    /\ cursor = 1

NextEntry ==
    \/ Dispatch
    \/ Next

SpecEntry == InitEntry /\ [][NextEntry]_vars

(***************************************************************************)
(* What the claims speak of, read off the input and the builder.           *)
(***************************************************************************)
\* the positions in the walk (counting from one) of the payloads of one
\* kind; the payload at position k has section index k - 1
PositionsOf(kind) == {k \in 1..Len(input.payloads) : input.payloads[k].kind = kind}

LastOf(S) == CHOOSE k \in S : \A j \in S : j <= k

Succeeded == pc = "done" /\ result.status = "ok"

\* the identities of the imported entries of one type, in import order
RECURSIVE ImportedIds(_, _)
ImportedIds(ty, k) ==
    IF k > Len(input.payloads) THEN <<>>
    ELSE LET p == input.payloads[k]
             picked == IF p.kind = "ImportSection"
                       THEN SelectSeq(EntryIds(k - 1, Len(p.entries)),
                                      LAMBDA id : p.entries[id[2] + 1].ty = ty)
                       ELSE <<>>
         IN  picked \o ImportedIds(ty, k + 1)

\* the identities of the entries of the sections of one kind, in order
RECURSIVE DeclaredIds(_, _)
DeclaredIds(kind, k) ==
    IF k > Len(input.payloads) THEN <<>>
    ELSE LET p == input.payloads[k]
         IN  (IF p.kind = kind THEN EntryIds(k - 1, Len(p.entries)) ELSE <<>>)
             \o DeclaredIds(kind, k + 1)

HasFunctionPair ==
    PositionsOf("FunctionSection") # {} /\ PositionsOf("CodeSectionStart") # {}

\* the section index of the code section and its bodies
CodeIndex == LastOf(PositionsOf("CodeSectionStart")) - 1
CodeBodies == input.payloads[CodeIndex + 1].entries

\* the identities of the declared functions: one per function-section entry,
\* numbered under the code section
DeclaredFunctionIds ==
    EntryIds(CodeIndex, Len(input.payloads[LastOf(PositionsOf("FunctionSection"))].entries))

ImportedThenDeclared(ty, kind) == ImportedIds(ty, 1) \o DeclaredIds(kind, 1)

FunctionSpace == ImportedIds("Func", 1) \o DeclaredFunctionIds

\* the edges pass has rebuilt the index spaces
IndicesBuilt == pass = "edges" /\ pc # "edges_walk"

\* the scan of the code bodies for edges has ended, well or not
ScanEnded == pass = "edges" /\ pc \in {"edges_sections", "done"}
ScanDone == pass = "edges" /\ (pc = "edges_sections" \/ Succeeded)

\* the edges pass has gone through the section at position k of the walk
EdgesDoneFor(k) ==
    /\ ScanDone
    /\ \E c \in 1..(cursor - 1) : c <= Len(sections) /\ sections[c].idx = k - 1

\* the targets of the edges leaving an item, in the order they were added
TargetsFrom(id) ==
    LET es == SelectSeq(items.edges, LAMBDA e : e[1] = id)
    IN  [n \in 1..Len(es) |-> es[n][2]]

TargetsAmong(id, ids) == SelectSeq(TargetsFrom(id), LAMBDA t : t \in ids)

SeqRange(s) == {s[n] : n \in 1..Len(s)}

(***************************************************************************)
(* C1.  Size conservation: whenever the parse succeeds, the sizes of all   *)
(* the items of the graph (roots and non-roots, each once) add up to the   *)
(* byte length of the input buffer.                                        *)
(***************************************************************************)
SizeConservation ==
    Succeeded => SumSizes(Unwrap(graph).items) = input.len

(***************************************************************************)
(* C2.  Index-space ordering: once the edges pass has rebuilt the index    *)
(* spaces, each of the function, table, memory and global spaces holds the *)
(* imported entries first, in import order, and the entries of its own     *)
(* declaration section after them, whatever the order of the sections.     *)
(***************************************************************************)
IndexSpaceOrdering ==
    IndicesBuilt =>
        /\ indices.functions = FunctionSpace
        /\ indices.tables = ImportedThenDeclared("Table", "TableSection")
        /\ indices.memories = ImportedThenDeclared("Memory", "MemorySection")
        /\ indices.globals = ImportedThenDeclared("Global", "GlobalSection")

(***************************************************************************)
(* C3.  Debug-name offset: with N imported functions, the item of the k-th *)
(* declared function carries the name recorded for function index N + k if *)
(* the name section records one and code[k] otherwise, and a name recorded *)
(* only for an index below N is the name of no function item.              *)
(***************************************************************************)
NameSections == {k \in PositionsOf("CustomSection") : input.payloads[k].name = "name"}

\* the names the decodable function-name subsections record for index j
RecordedNames(j) ==
    UNION {UNION {LET sub == input.payloads[k].entries[s]
                  IN  IF sub.ok /\ sub.kind = "Function"
                      THEN {sub.namings[n].name :
                               n \in {m \in 1..Len(sub.namings) :
                                         sub.namings[m].ok /\ sub.namings[m].index = j}}
                      ELSE {}
                  : s \in 1..Len(input.payloads[k].entries)}
           : k \in NameSections}

CodeItemsAdded == HasFunctionPair /\ (pc = "items_sections" \/ pass = "edges")

CodeItemNames(id) ==
    {items.items[n].name :
        n \in {m \in 1..Len(items.items) :
                  items.items[m].id = id /\ items.items[m].kind = "Code"}}

ImportedFunctionCount == Len(ImportedIds("Func", 1))

DebugNameOffset ==
    (CodeItemsAdded /\ Cardinality(NameSections) <= 1) =>
        LET N == ImportedFunctionCount
            M == Len(DeclaredFunctionIds)
        IN  /\ \A k \in 0..(M - 1) :
                  CodeItemNames(IdEntry(CodeIndex, k)) =
                      IF RecordedNames(N + k) # {}
                      THEN {Str(CHOOSE x \in RecordedNames(N + k) : TRUE)}
                      ELSE {Fmt("code[{}]", k, "")}
            /\ \A j \in 0..(N - 1) : \A x \in RecordedNames(j) :
                  (\A k \in 0..(M - 1) : x \notin RecordedNames(N + k))
                  => \A k \in 0..(M - 1) : Str(x) \notin CodeItemNames(IdEntry(CodeIndex, k))

DebugNameOffsetWitness ==
    /\ CodeItemsAdded
    /\ Cardinality(NameSections) = 1
    /\ ImportedFunctionCount >= 1
    /\ RecordedNames(0) # {}
    /\ RecordedNames(ImportedFunctionCount) # {}
    /\ RecordedNames(ImportedFunctionCount + 1) = {}
    /\ Cardinality(RecordedNames(ImportedFunctionCount)) = 1

(***************************************************************************)
(* C4.  Export resolution: when the edges pass has gone through an export  *)
(* section, every export of kind function, table, memory or global has     *)
(* exactly one edge, to the item at its raw index in the space its kind    *)
(* selects (the function space being the imported functions followed by    *)
(* the declared ones), and an export of kind tag has no edge.              *)
(***************************************************************************)
SelectedSpace(kind) ==
    CASE kind = "Func" -> FunctionSpace
      [] kind = "Table" -> indices.tables
      [] kind = "Memory" -> indices.memories
      [] kind = "Global" -> indices.globals

ExportResolved(k, i) ==
    LET exp == input.payloads[k].entries[i]
        targets == TargetsFrom(IdEntry(k - 1, i - 1))
    IN  IF exp.kind = "Tag" THEN targets = <<>>
        ELSE /\ exp.index < Len(SelectedSpace(exp.kind))
             /\ targets = <<SelectedSpace(exp.kind)[exp.index + 1]>>

ExportResolution ==
    \A k \in PositionsOf("ExportSection") :
        EdgesDoneFor(k) =>
            \A i \in 1..Len(input.payloads[k].entries) : ExportResolved(k, i)

ExportResolutionWitness ==
    \E k \in PositionsOf("ExportSection") :
        /\ EdgesDoneFor(k)
        /\ ImportedFunctionCount >= 1
        /\ \E i \in 1..Len(input.payloads[k].entries) :
              /\ input.payloads[k].entries[i].kind = "Func"
              /\ input.payloads[k].entries[i].index >= ImportedFunctionCount
        /\ \E i \in 1..Len(input.payloads[k].entries) :
              input.payloads[k].entries[i].kind = "Tag"
        /\ \E i \in 1..Len(input.payloads[k].entries) :
              input.payloads[k].entries[i].kind = "Global"

(***************************************************************************)
(* C5.  Constant-address load attribution: when the scan of the bodies has *)
(* ended, every load that directly follows a constant-integer push whose   *)
(* constant plus the load's static offset lies in a registered data        *)
(* segment has given its body an edge to that segment's item, and no other *)
(* load has given an edge.                                                 *)
(***************************************************************************)
ConstantPushes == {"I32Const", "I64Const"}

SegmentsAt(addr) ==
    {n \in 1..Len(items.data) :
        items.data[n].start <= addr /\ addr < items.data[n].start + items.data[n].len}

\* the data items the loads of a body are to be attributed to, load by load
RECURSIVE AttributedLoads(_, _)
AttributedLoads(ops, p) ==
    IF p > Len(ops) THEN <<>>
    ELSE LET hits == IF /\ ops[p].op \in LoadOps
                        /\ p > 1
                        /\ ops[p - 1].op \in ConstantPushes
                     THEN SegmentsAt(ops[p - 1].imm + ops[p].imm)
                     ELSE {}
         IN  (IF hits = {} THEN <<>> ELSE <<items.data[CHOOSE n \in hits : TRUE].id>>)
             \o AttributedLoads(ops, p + 1)

DataItemIds ==
    {items.data[n].id : n \in 1..Len(items.data)}
    \cup SeqRange(DeclaredIds("DataSection", 1))

LoadAttribution ==
    (ScanEnded /\ HasFunctionPair) =>
        \A b \in 1..Len(CodeBodies) :
            TargetsAmong(IdEntry(CodeIndex, b - 1), DataItemIds)
                = AttributedLoads(CodeBodies[b].ops, 1)

(***************************************************************************)
(* C6.  Indirect-call non-edge: when the scan of the bodies is done, the   *)
(* edges from a body to functions are as many as its direct calls, so a    *)
(* body whose only call is indirect has none, whatever surrounds the call. *)
(***************************************************************************)
DirectCalls(ops) == {p \in 1..Len(ops) : ops[p].op = "Call"}

IndirectCallNonEdge ==
    (ScanDone /\ HasFunctionPair) =>
        \A b \in 1..Len(CodeBodies) :
            Len(TargetsAmong(IdEntry(CodeIndex, b - 1), SeqRange(indices.functions)))
                = Cardinality(DirectCalls(CodeBodies[b].ops))

IndirectCallNonEdgeWitness ==
    /\ ScanDone
    /\ HasFunctionPair
    /\ \E b \in 1..Len(CodeBodies) :
          LET ops == CodeBodies[b].ops
          IN  /\ Len(ops) = 3
              /\ ops[1].op = "I32Const"
              /\ ops[2].op = "CallIndirect"
              /\ ops[3].op \in LoadOps
              /\ ops[2].imm < Len(indices.functions)
              /\ TargetsAmong(IdEntry(CodeIndex, b - 1), SeqRange(indices.functions)) = <<>>

(***************************************************************************)
(* C7.  Missing-pair failure: on an input with a function section and no   *)
(* code section, or a code section and no function section, the parse      *)
(* never leaves the items pass, never has a graph, and ends with the error *)
(* value "function or code section is missing"; the panic of the edges     *)
(* pass with that message happens on no input.                             *)
(***************************************************************************)
MissingPairInput ==
    (PositionsOf("FunctionSection") = {}) # (PositionsOf("CodeSectionStart") = {})

MissingPairFailure ==
    /\ MissingPairInput =>
          /\ pass = "items"
          /\ pc \in {"items_walk", "items_funccode", "done"}
          /\ graph = None
          /\ pc = "done" =>
                result = [status |-> "err", msg |-> "function or code section is missing"]
    /\ result.msg = "function or code section is missing" => result.status = "err"

MissingPairFailureWitness ==
    /\ PositionsOf("FunctionSection") # {}
    /\ PositionsOf("CodeSectionStart") = {}
    /\ Len(input.payloads) >= 3
    /\ pc = "done"
    /\ result.status = "err"
    /\ result.msg = "function or code section is missing"

(***************************************************************************)
(* C8.  Name-metadata corruption never fails the parse: when an entry of   *)
(* the name section cannot be decoded (a subsection, a subsection kind, or *)
(* one naming of the function-names or data-names map) and the module is   *)
(* well-formed otherwise, the parse ends in success.                       *)
(***************************************************************************)
UndecodableNameEntry ==
    \E k \in NameSections : \E s \in 1..Len(input.payloads[k].entries) :
        LET sub == input.payloads[k].entries[s]
        IN  \/ ~sub.ok
            \/ sub.kind = "Unknown"
            \/ \E n \in 1..Len(sub.namings) : ~sub.namings[n].ok

NameCorruptionNeverFails ==
    (UndecodableNameEntry /\ pc = "done") => Succeeded

(***************************************************************************)
(* C9.  Every failure is an error value: the parse never ends in a panic,  *)
(* in particular not when a call, global access, export, start or element  *)
(* reference carries an index outside its index space, and a parse that    *)
(* fails has no graph.                                                     *)
(***************************************************************************)
FailureIsErrorValue ==
    pc = "done" =>
        /\ result.status \in {"ok", "err"}
        /\ result.status = "err" => graph = None

(***************************************************************************)
(* C10.  Truncated input: whenever the walker reports that it needs more   *)
(* data, the step taken ends the parse with the error value "wasm binary   *)
(* cannot be fully parsed" and no graph, walks no further payload and adds *)
(* no item; and nothing runs after a parse has ended, so no edges pass     *)
(* follows an items pass that failed.                                      *)
(***************************************************************************)
WalkerNeedsMoreData ==
    /\ pc \in {"items_walk", "edges_walk"}
    /\ offset # input.len
    /\ ParserParse(offset).chunk = "NeedMoreData"

AutoDetecting ==
    \/ input.entry = "parse"
    \/ input.entry = "read_and_parse" /\ input.mode = "Auto" /\ input.file_ok

SniffSucceeds ==
    \/ input.entry = "read_and_parse" /\ input.extension = <<"wasm">>
    \/ /\ input.len >= 4
       /\ input.payloads[1].kind = "Version"

HandedToOther == result.status = "other"

RanModuleDecoder == pc # "entry" /\ result.status # "other" /\ result.msg # "io error"

AutoDetection ==
    (pc # "entry" /\ AutoDetecting) =>
        IF SniffSucceeds THEN RanModuleDecoder ELSE HandedToOther
(***************************************************************************)
(* C12.  Identity stability across passes: in the items pass and in the    *)
(* edges pass alike the position counter is the number of payloads walked  *)
(* so far, code-body entries included, so every section a pass records     *)
(* carries the position of its payload in the input; and once the edges    *)
(* pass has walked the input, the identity it holds for a section, for the *)
(* code section and for a section's entry is the identity of the item the  *)
(* items pass created for it.                                              *)
(***************************************************************************)
Walking == pc \in {"items_walk", "edges_walk"}

\* the sections whose every entry the items pass turns into an item
EntrySections ==
    {"ImportSection", "TableSection", "MemorySection", "GlobalSection", "ExportSection",
     "ElementSection", "DataSection"}

ItemNamesOf(id) == {items.items[n].name : n \in {m \in 1..Len(items.items) : items.items[m].id = id}}

PositionIsPayloadCount ==
    /\ Walking => offset = StartOf(input.payloads, idx + 1)
    /\ \A c \in 1..Len(sections) :
          /\ sections[c].idx + 1 \in 1..Len(input.payloads)
          /\ input.payloads[sections[c].idx + 1] = sections[c].payload
    /\ IsSome(code_section) =>
          /\ Unwrap(code_section).index + 1 \in PositionsOf("CodeSectionStart")
          /\ Unwrap(code_section).reader = input.payloads[Unwrap(code_section).index + 1].entries
    /\ IsSome(function_section) =>
          /\ Unwrap(function_section).index + 1 \in PositionsOf("FunctionSection")
          /\ Unwrap(function_section).reader
                = input.payloads[Unwrap(function_section).index + 1].entries

EdgesWalked == pass = "edges" /\ pc \in {"edges_funccode", "edges_sections"}

SameIdentities ==
    EdgesWalked =>
        /\ \A c \in 1..Len(sections) :
              LET s == sections[c]
              IN  /\ s.payload.kind # "CodeSectionEntry" =>
                        ItemNamesOf(IdSection(s.idx)) = {get_section_name(s.payload)}
                  /\ s.payload.kind \in EntrySections =>
                        \A i \in 1..Len(s.payload.entries) :
                            Cardinality(ItemNamesOf(IdEntry(s.idx, i - 1))) = 1
        /\ IsSome(code_section) =>
              /\ ItemNamesOf(IdSection(Unwrap(code_section).index)) = {get_code_section_name}
              /\ \A i \in 1..Min(Len(Unwrap(code_section).reader),
                                 Len(Unwrap(function_section).reader)) :
                    Cardinality(ItemNamesOf(IdEntry(Unwrap(code_section).index, i - 1))) = 1

IdentityStability == PositionIsPayloadCount /\ SameIdentities

IdentityStabilityWitness ==
    /\ EdgesWalked
    /\ pc = "edges_sections"
    /\ IsSome(code_section)
    /\ Len(Unwrap(code_section).reader) = 2
    /\ \E c \in 1..Len(sections) :
          /\ sections[c].payload.kind \in EntrySections
          /\ sections[c].idx > Unwrap(code_section).index + 2
(***************************************************************************)
(* C13.  Section residual: the assertions on the sizes never fail, and the *)
(* size of every section root is the byte length of its section less the   *)
(* sizes of the items synthesized from the section; for the merged         *)
(* function and code root the byte length is that of both sections.        *)
(* SectionResidualNonRoots subtracts the non-root items only, as the       *)
(* statement has it; SectionResidual subtracts every item synthesized from *)
(* the section, entry roots included.                                      *)
(***************************************************************************)
\* the byte length of the section a root with section index j stands for
SectionByteLength(j) ==
    LET p == input.payloads[j + 1]
    IN  IF p.kind = "CodeSectionStart"
        THEN p.span + input.payloads[LastOf(PositionsOf("FunctionSection"))].size
        ELSE p.size

\* the items synthesized from the section with index j
EntryItemsOf(j) == SelectSeq(items.items, LAMBDA it : Len(it.id) = 2 /\ it.id[1] = j)

NonRootEntryItemsOf(j) ==
    SelectSeq(EntryItemsOf(j), LAMBDA it : it.id \notin SeqRange(items.roots))

SectionRoots == {n \in 1..Len(items.items) : Len(items.items[n].id) = 1}

AssertionsHold ==
    result.msg \notin {"assertion failed: added <= size", "assertion failed: added <= *size"}

SectionResidualNonRoots ==
    /\ AssertionsHold
    /\ \A n \in SectionRoots :
          LET j == items.items[n].id[1]
          IN  /\ SumSizes(NonRootEntryItemsOf(j)) <= SectionByteLength(j)
              /\ items.items[n].size = SectionByteLength(j) - SumSizes(NonRootEntryItemsOf(j))

SectionResidual ==
    /\ AssertionsHold
    /\ \A n \in SectionRoots :
          LET j == items.items[n].id[1]
          IN  /\ SumSizes(EntryItemsOf(j)) <= SectionByteLength(j)
              /\ items.items[n].size = SectionByteLength(j) - SumSizes(EntryItemsOf(j))

SectionResidualWitness ==
    /\ Succeeded
    /\ \E n \in SectionRoots :
          /\ input.payloads[items.items[n].id[1] + 1].kind = "TableSection"
          /\ Len(EntryItemsOf(items.items[n].id[1])) = 2
          /\ NonRootEntryItemsOf(items.items[n].id[1]) = <<>>
    /\ \E n \in SectionRoots :
          /\ input.payloads[items.items[n].id[1] + 1].kind = "CodeSectionStart"
          /\ Len(EntryItemsOf(items.items[n].id[1])) = 2
(***************************************************************************)
(* C14.  One-instruction lookback: in the scan of a body the lookback an   *)
(* instruction sees is empty or the instruction directly before it; it is  *)
(* that instruction exactly when that instruction is no direct call, no    *)
(* indirect call, no global access and no load, and it is empty at the     *)
(* first instruction of every body.  So the data edges of a body are those *)
(* of its loads matched with the instruction directly before them, and a   *)
(* constant gives an edge to no later instruction.                         *)
(***************************************************************************)
\* the instructions that leave the lookback empty
ClearsLookback(op) ==
    op.op \in {"Call", "CallIndirect", "GlobalGet", "GlobalSet"} \cup LoadOps

\* what `prev` holds when instruction p of a body is examined: the scan of
\* a body starts from None, and `cache.take()` leaves nothing of what was
\* held before instruction p - 1
LookbackBefore(ops, p) == IF p = 1 THEN None ELSE NextCache(ops[p - 1])

\* the data edges of a body when each load is matched with the instruction
\* directly before it and with nothing else
RECURSIVE DirectlyFollowingLoads(_, _, _)
DirectlyFollowingLoads(ops, p, body_id) ==
    IF p > Len(ops) THEN <<>>
    ELSE LET here == IF ops[p].op \in LoadOps /\ p > 1 /\ ops[p - 1].op \in ConstantPushes
                     THEN LoadEdge(ops[p], Some(ops[p - 1]), body_id, items, input.build).value
                     ELSE <<>>
         IN  [n \in 1..Len(here) |-> here[n][2]] \o DirectlyFollowingLoads(ops, p + 1, body_id)

SingleConstant(offset_expr) ==
    Len(offset_expr) = 1 /\ offset_expr[1].op \in ConstantPushes

RangesOf(id) == {n \in 1..Len(items.data) : items.data[n].id = id}

DataRangeRegistration ==
    pass = "edges" =>
        \A k \in PositionsOf("DataSection") :
            \A i \in 1..Len(input.payloads[k].entries) :
                LET d == input.payloads[k].entries[i]
                    ranges == RangesOf(IdEntry(k - 1, i - 1))
                IN  IF d.kind = "Active" /\ SingleConstant(d.offset_expr)
                    THEN /\ Cardinality(ranges) = 1
                         /\ \A n \in ranges :
                               /\ items.data[n].start = d.offset_expr[1].imm
                               /\ items.data[n].len = d.len
                    ELSE ranges = {}
(***************************************************************************)
(* C16.  Table and memory items are roots: in the graph of a successful    *)
(* parse every entry i of a table section has one item named table[i],     *)
(* every entry i of a memory section has one item named memory[i], and     *)
(* every one of these items is among the roots of the graph.               *)
(***************************************************************************)
GraphItemsOf(id) == SelectSeq(Unwrap(graph).items, LAMBDA it : it.id = id)

TableAndMemoryRoots ==
    Succeeded =>
        \A k \in PositionsOf("TableSection") \cup PositionsOf("MemorySection") :
            \A i \in 1..Len(input.payloads[k].entries) :
                LET id == IdEntry(k - 1, i - 1)
                    fmt == IF input.payloads[k].kind = "TableSection"
                           THEN "table[{}]" ELSE "memory[{}]"
                IN  /\ Len(GraphItemsOf(id)) = 1
                    /\ GraphItemsOf(id)[1].name = Fmt(fmt, i - 1, "")
                    /\ id \in SeqRange(Unwrap(graph).roots)
(***************************************************************************)
(* C17.  Function-to-type edge: when the edges of the function and code    *)
(* sections are in, every declared function i whose signature index names  *)
(* a function type has exactly one edge from the item with the identity of *)
(* code entry i to a type item, and that item is the one of the type at    *)
(* the position of the signature index in the type index space.            *)
(***************************************************************************)
\* the type index space of the type section at payload k: every entry has
\* one position, an explicit recursive group one for each of its types
RECURSIVE TypeSpaceFrom(_, _)
TypeSpaceFrom(entries, i) ==
    IF i > Len(entries) THEN <<>>
    ELSE (IF entries[i].comp = "Rec"
          THEN [n \in 1..Len(entries[i].types) |->
                    [entry |-> i - 1, comp |-> entries[i].types[n], rec |-> TRUE]]
          ELSE <<[entry |-> i - 1, comp |-> entries[i].comp, rec |-> FALSE]>>)
         \o TypeSpaceFrom(entries, i + 1)

TypeSpace(k) == TypeSpaceFrom(input.payloads[k].entries, 1)

FunctionIndex == LastOf(PositionsOf("FunctionSection")) - 1

DeclaredFunctions == input.payloads[FunctionIndex + 1].entries

TypeEntryIds(k) == {IdEntry(k - 1, i - 1) : i \in 1..Len(input.payloads[k].entries)}

AllTypeEntryIds == UNION {TypeEntryIds(k) : k \in PositionsOf("TypeSection")}

\* the signature index of a declared function names a function type
NamesFunctionType(k, type_ref) ==
    type_ref < Len(TypeSpace(k)) /\ TypeSpace(k)[type_ref + 1].comp = "Func"

FunctionToTypeEdge ==
    (ScanDone /\ HasFunctionPair /\ Cardinality(PositionsOf("TypeSection")) = 1) =>
        LET k == LastOf(PositionsOf("TypeSection"))
        IN  \A i \in 1..Len(DeclaredFunctions) :
                NamesFunctionType(k, DeclaredFunctions[i].type_ref) =>
                    LET ty == TypeSpace(k)[DeclaredFunctions[i].type_ref + 1]
                    IN  /\ TargetsAmong(IdEntry(CodeIndex, i - 1), AllTypeEntryIds)
                              = <<IdEntry(k - 1, ty.entry)>>
                        /\ ItemNamesOf(IdEntry(k - 1, ty.entry)) # {}
(***************************************************************************)
(* C18.  Element edges: when the edges pass has gone through an element    *)
(* section, a segment has an edge coming in from a table exactly when it   *)
(* is active, and then one edge, from the table at its table index (table  *)
(* 0 when it gives none); an active or declared segment that lists         *)
(* function indices has one edge to the function at each index, in order;  *)
(* and a segment whose items are expressions has no outgoing edge.         *)
(***************************************************************************)
\* the sources of the edges arriving at an item, in the order they were added
SourcesTo(id) ==
    LET es == SelectSeq(items.edges, LAMBDA e : e[2] = id)
    IN  [n \in 1..Len(es) |-> es[n][1]]

ReferencedTable(elem) == IF IsSome(elem.table_index) THEN Unwrap(elem.table_index) ELSE 0

ElementEdgesOf(k, i) ==
    LET elem == input.payloads[k].entries[i]
        elem_id == IdEntry(k - 1, i - 1)
    IN  /\ IF elem.kind = "Active"
           THEN /\ ReferencedTable(elem) < Len(indices.tables)
                /\ SourcesTo(elem_id) = <<indices.tables[ReferencedTable(elem) + 1]>>
           ELSE SourcesTo(elem_id) = <<>>
        /\ (elem.kind \in {"Active", "Declared"} /\ elem.items = "Functions") =>
              /\ Len(TargetsFrom(elem_id)) = Len(elem.funcs)
              /\ \A n \in 1..Len(elem.funcs) :
                    /\ elem.funcs[n] < Len(FunctionSpace)
                    /\ n <= Len(TargetsFrom(elem_id))
                    /\ TargetsFrom(elem_id)[n] = FunctionSpace[elem.funcs[n] + 1]
        /\ elem.items = "Expressions" => TargetsFrom(elem_id) = <<>>

ElementEdges ==
    \A k \in PositionsOf("ElementSection") :
        EdgesDoneFor(k) =>
            \A i \in 1..Len(input.payloads[k].entries) : ElementEdgesOf(k, i)

ElementEdgesWitness ==
    \E k \in PositionsOf("ElementSection") :
        /\ EdgesDoneFor(k)
        /\ ImportedFunctionCount >= 1
        /\ \E i \in 1..Len(input.payloads[k].entries) :
              /\ input.payloads[k].entries[i].kind = "Active"
              /\ input.payloads[k].entries[i].table_index = None
              /\ Len(input.payloads[k].entries[i].funcs) = 2
              /\ Len(SourcesTo(IdEntry(k - 1, i - 1))) = 1
        /\ \E i \in 1..Len(input.payloads[k].entries) :
              /\ input.payloads[k].entries[i].kind = "Active"
              /\ input.payloads[k].entries[i].table_index = Some(1)
              /\ input.payloads[k].entries[i].items = "Expressions"
        /\ \E i \in 1..Len(input.payloads[k].entries) :
              /\ input.payloads[k].entries[i].kind = "Declared"
              /\ Len(TargetsFrom(IdEntry(k - 1, i - 1))) = 1
              /\ SourcesTo(IdEntry(k - 1, i - 1)) = <<>>
(***************************************************************************)
(* C19.  Edge endpoints exist: in the graph of a successful parse the      *)
(* source and the target of every edge are identities of items of the      *)
(* graph.                                                                  *)
(***************************************************************************)
GraphItemIds == {Unwrap(graph).items[n].id : n \in 1..Len(Unwrap(graph).items)}

EdgeEndpointsExist ==
    Succeeded =>
        \A n \in 1..Len(Unwrap(graph).edges) :
            /\ Unwrap(graph).edges[n][1] \in GraphItemIds
            /\ Unwrap(graph).edges[n][2] \in GraphItemIds
(***************************************************************************)
(* C20.  A module without functions is rejected: on an input with no       *)
(* function section and no code section (the empty buffer, the header      *)
(* alone, the header with other sections) no item is ever added, the parse *)
(* never leaves the items pass, and it ends with the error value "function *)
(* or code section is missing"; a parse that succeeds has both sections.   *)
(***************************************************************************)
NoFunctionsInput ==
    PositionsOf("FunctionSection") = {} /\ PositionsOf("CodeSectionStart") = {}

NoFunctionsRejected ==
    /\ NoFunctionsInput =>
          /\ items.items = <<>>
          /\ items.size_added = 0
          /\ pass = "items"
          /\ pc \in {"items_walk", "items_funccode", "done"}
          /\ graph = None
          /\ pc = "done" => result = MissingPair
    /\ Succeeded => HasFunctionPair

NoFunctionsRejectedWitness ==
    /\ NoFunctionsInput
    /\ Len(input.payloads) = 3
    /\ PositionsOf("ImportSection") # {}
    /\ PositionsOf("CustomSection") # {}
    /\ pc = "done"
    /\ result = MissingPair
    /\ items.items = <<>>

\* the empty buffer ends the same way
EmptyBufferRejectedWitness ==
    /\ input.len = 0
    /\ pc = "done"
    /\ result = MissingPair
    /\ items.items = <<>>
(***************************************************************************)
(* C21.  Load address arithmetic: when the scan of the bodies has ended,   *)
(* for every load that directly follows a 32-bit constant the sum of the   *)
(* constant converted to an unsigned 64-bit value and the load's static    *)
(* offset needed no 65th bit, so the address the load computed is the      *)
(* exact sum, and computing it did not abort.                              *)
(***************************************************************************)
\* the loads of a body that compute an address: those directly after i32.const
ConstantAddressLoads(ops) ==
    {p \in 2..Len(ops) : ops[p].op \in LoadOps /\ ops[p - 1].op = "I32Const"}

LoadAddressArithmetic ==
    (ScanEnded /\ HasFunctionPair) =>
        \A b \in 1..Len(CodeBodies) :
            \A p \in ConstantAddressLoads(CodeBodies[b].ops) :
                LET value == CodeBodies[b].ops[p - 1].imm
                    memarg_offset == CodeBodies[b].ops[p].imm
                    exact == U64Add(I32AsU64(value), U64(memarg_offset))
                    addr == LoadAddress(value, memarg_offset, input.build)
                IN  /\ ~exact.overflow
                    /\ ~addr.panic
                    /\ addr.value = exact.value
====
